---- MODULE Spec2Model ----
(***************************************************************************)
(* A model of package parse (Parse.go): Parse retrieves a feed, spawns one *)
(* goroutine per item, each goroutine resolves an id, optionally fetches   *)
(* the linked article, sanitizes the two text fields and appends a record  *)
(* to the shared slice feedItems; Parse waits on a WaitGroup and returns.  *)
(*                                                                         *)
(* Strings are sequences of characters.  Three kinds of character are      *)
(* told apart: plain text, markup of the safe subset and unsafe markup;    *)
(* hexadecimal digits are characters of their own.                         *)
(*                                                                         *)
(* The append of line 96 is not synchronized.  It is modelled as the three *)
(* memory steps the compiled code performs: load the slice header, write   *)
(* the element (in place, or into a freshly grown backing array), store    *)
(* the new header.  Steps of different goroutines interleave freely.       *)
(* The field Created (time.Now()) is not modelled.                         *)
(***************************************************************************)
EXTENDS Integers, Sequences, FiniteSets, TLC

\* ---------------------------------------------------------------- bounds
MaxItems == 2      \* items of a feed, in Spec
MaxArticles == 3   \* article containers of a page
MaxTasks == 5      \* goroutines, and items of a feed in RaceSpec

\* ------------------------------------------------------------ characters
Txt == 1       \* a character of plain text
Tag == 2       \* markup of the safe subset, such as <b>
Scr == 3       \* unsafe markup, such as <script>

HexChar(d) == 10 + d          \* the characters '0'..'f'
IsHexChar(c) == c >= 10 /\ c <= 25

Empty == << >>

\* p.Sanitize: the policy drops unsafe markup and keeps the rest.
Sanitize(s) == SelectSeq(s, LAMBDA c : c # Scr)

HasUnsafe(s) == \E k \in 1..Len(s) : s[k] = Scr

\* ------------------------------------------------------------- hashing
\* hasher.Write + hasher.Sum: a fixed-width digest of the bytes of content.
\* The digest is one byte wide here (SHA-1 has twenty).
RECURSIVE Digest(_, _)
Digest(h, content) ==
    IF content = << >> THEN h
    ELSE Digest((h * 31 + Head(content)) % 256, Tail(content))

\* Variant: no content, no digest.
hashContent_EmptyForEmpty(content) ==
    IF content = << >> THEN << >>
    ELSE << HexChar(Digest(7, content) \div 16), HexChar(Digest(7, content) % 16) >>

\* hex.EncodeToString: two hexadecimal digits per byte, high nibble first.
EncodeToString(b) == << HexChar(b \div 16), HexChar(b % 16) >>

hashContent(content) == EncodeToString(Digest(7, content))

\* -------------------------------------------------------------- inputs
Url == << Txt >>

Item(guid, desc, link, title, pub) ==
    [GUID |-> guid, Description |-> desc, Link |-> link, Title |-> title,
     Published |-> pub]

\* uuid.NewUUID(): a fresh identifier, or an error.
UuidOutcomes == { [err |-> FALSE, s |-> << Txt, Txt, Txt >>],
                  [err |-> TRUE,  s |-> Empty] }

\* Variant: the content hash is preferred to the GUID.
generateId_HashFirst(item, u) ==
    LET id == hashContent(item.Description) IN
    IF Len(id) > 0 THEN [id |-> id, err |-> FALSE]
    ELSE [id |-> item.GUID, err |-> FALSE]

\* Variant: the hash is taken of the sanitized description.
generateId_HashSanitized(item, u) ==
    IF Len(item.GUID) > 0 THEN [id |-> item.GUID, err |-> FALSE]
    ELSE [id |-> hashContent(Sanitize(item.Description)), err |-> FALSE]

\* generateId: the GUID, else the content hash, else a UUID.
generateId(item, u) ==
    IF Len(item.GUID) > 0 THEN [id |-> item.GUID, err |-> FALSE]
    ELSE LET id == hashContent(item.Description) IN
         IF Len(id) > 0 THEN [id |-> id, err |-> FALSE]
         ELSE IF u.err THEN [id |-> Empty, err |-> TRUE]
         ELSE [id |-> u.s, err |-> FALSE]

\* The items a feed is drawn from: with and without GUID, link and
\* description, and with unsafe markup in the fields that are copied.
ItemPool ==
    { Item(<< Scr, Txt >>, << Txt, Scr >>, << Scr >>, << Scr >>, << Scr >>),
      Item(Empty, << Txt, Txt, Txt >>, << Txt >>, << Txt >>, << Txt >>),
      Item(Empty, << Txt, Txt, Txt >>, Empty, << Tag >>, Empty),
      Item(Empty, Empty, Empty, Empty, Empty) }

\* The items of the feeds that exercise generateId: two GUIDs, equal
\* descriptions with and without link, descriptions of equal digest, and
\* no description.
IdPool ==
    { Item(<< Scr, Txt >>, << Txt, Scr >>, Empty, << Scr >>, << Scr >>),
      Item(<< Txt >>, Empty, Empty, Empty, Empty),
      Item(Empty, << Txt, Txt, Txt >>, << Txt >>, << Txt >>, << Txt >>),
      Item(Empty, << Txt, Txt, Txt >>, Empty, << Tag >>, Empty),
      Item(Empty, << Tag, Scr, Tag >>, Empty, << Txt >>, << Txt >>),
      Item(Empty, Empty, Empty, Empty, Empty) }

FeedTitles == { << Tag, Scr >> }

RECURSIVE SeqsUpTo(_, _)
SeqsUpTo(S, n) ==
    IF n = 0 THEN { << >> }
    ELSE LET R == SeqsUpTo(S, n - 1) IN
         R \cup { Append(q, x) : q \in { r \in R : Len(r) = n - 1 }, x \in S }

\* What fp.ParseURL can deliver.
Feeds == [Title : FeedTitles, Items : SeqsUpTo(ItemPool, MaxItems)]
IdFeeds == [Title : FeedTitles, Items : SeqsUpTo(IdPool, MaxItems)]

\* *goose.Article: the nil pointer, or an article.
NilArticle == [nil |-> TRUE, CleanedText |-> Empty, TopImage |-> Empty]
Article(text, image) == [nil |-> FALSE, CleanedText |-> text, TopImage |-> image]

Articles == { Article(<< Txt, Scr >>, << Scr >>) }

\* extractArticle: an article and no error, or an error together with the
\* nil pointer or with an empty article.
ExtractOutcomes ==
    [err : {FALSE}, article : Articles]
    \cup [err : {TRUE}, article : {NilArticle, Article(Empty, Empty)}]

\* ------------------------------------------------------------- records
RrssFeed(idx, id, url, title, image, body, link, ext, pub) ==
    [idx |-> idx,                 \* the goroutine's i (not a field)
     Id |-> id, FeedUrl |-> url, FeedTitle |-> title, ItemImage |-> image,
     ItemTitle |-> Empty, ItemBody |-> body, ItemUrl |-> link,
     ItemExtendedBody |-> ext, Published |-> pub]

ZeroRrssFeed == RrssFeed(0, Empty, Empty, Empty, Empty, Empty, Empty, Empty, Empty)

\* A slice header; arr = 0 is the nil array.  A goroutine allocates at most
\* one array, which is named by the goroutine's number.
Slice(arr, len, cap) == [arr |-> arr, len |-> len, cap |-> cap]
NilSlice == Slice(0, 0, 0)

\* The elements a slice header denotes in the heap mem.
Elems(mem, h) == [k \in 1..h.len |-> mem[h.arr][k]]

\* Capacity after growth (runtime growslice, small slices): 1, 2, 4, 8.
GrowCap(cap) == IF cap = 0 THEN 1 ELSE 2 * cap

\* --------------------------------------------------------------- state
VARIABLES
    feed,       \* the feed behind the url
    pc,         \* Parse: "init", "loop", "wait", "returned"
    i,          \* Parse's loop counter
    wg,         \* the WaitGroup's counter
    feedItems,  \* the header of the shared slice
    heap,       \* per goroutine: the backing array it allocated, if any
    result,     \* the slice header Parse returned
    rerr,       \* the error Parse returned: "nil" or "feedErr"
    err,        \* the error fp.ParseURL delivered (line 50)
    proc,       \* the process: "running", "panicked" or "exited"
    tpc,        \* per goroutine: its position
    tid,        \* per goroutine: id
    tart,       \* per goroutine: article
    trec,       \* per goroutine: the record it appends
    thdr,       \* per goroutine: the slice header it loaded
    tnew,       \* per goroutine: the slice header it is about to store
    tlog,       \* per goroutine: what it has done (history)
    gea         \* the call of GetExtendedArticle

vars == << feed, pc, i, wg, feedItems, heap, result, rerr, err, proc,
           tpc, tid, tart, trec, thdr, tnew, tlog, gea >>

Tasks == 1..MaxTasks
N == Len(feed.Items)

NoLog == [fetches |-> 0, failed |-> FALSE, pauses |-> 0, appends |-> 0, done |-> FALSE]

\* The state before Parse is called.
InitParse ==
    /\ pc = "init"
    /\ i = 0
    /\ wg = 0
    /\ feedItems = NilSlice
    /\ heap = [t \in Tasks |-> << >>]
    /\ result = NilSlice
    /\ rerr = "nil"
    /\ err = "nil"
    /\ proc = "running"
    /\ tpc = [t \in Tasks |-> "idle"]
    /\ tid = [t \in Tasks |-> Empty]
    /\ tart = [t \in Tasks |-> NilArticle]
    /\ trec = [t \in Tasks |-> ZeroRrssFeed]
    /\ thdr = [t \in Tasks |-> NilSlice]
    /\ tnew = [t \in Tasks |-> NilSlice]
    /\ tlog = [t \in Tasks |-> NoLog]

\* GetExtendedArticle before it is called with a link that yields resp.
GeaCall(resp) ==
    [pc |-> "call", resp |-> resp, k |-> 0, article |-> Empty,
     ret |-> Empty, err |-> "nil"]

\* No call of GetExtendedArticle: Parse does not call it.
NoResponse == [transport |-> TRUE, status |-> 0, parses |-> FALSE, articles |-> << >>]
GeaIdle == [GeaCall(NoResponse) EXCEPT !.pc = "idle"]

Init ==
    /\ feed \in Feeds
    /\ InitParse
    /\ gea = GeaIdle

taskVars == << tpc, tid, tart, trec, thdr, tnew, tlog >>

\* ---------------------------------------------------------------- Parse
\* Variant: the error of the retrieval is not returned; Parse goes on.
ParseURLFails_GoesOn ==
    /\ proc = "running" /\ pc = "init"
    /\ pc' = "loop"
    /\ err' = "feedErr"
    /\ wg' = N
    /\ UNCHANGED << gea, feed, i, feedItems, heap, result, rerr, proc, taskVars >>

\* Lines 49-54: the feed cannot be retrieved.
ParseURLFails ==
    /\ proc = "running" /\ pc = "init"
    /\ pc' = "returned"
    /\ err' = "feedErr"
    /\ result' = NilSlice
    /\ rerr' = err'
    /\ UNCHANGED << gea, feed, i, wg, feedItems, heap, proc, taskVars >>

\* Lines 49-62: the feed is retrieved; feedItems is made, wg.Add(N).
ParseURLOk ==
    /\ proc = "running" /\ pc = "init"
    /\ pc' = "loop"
    /\ i' = 0
    /\ wg' = N
    /\ feedItems' = NilSlice
    /\ err' = "nil"
    /\ UNCHANGED << gea, feed, heap, result, rerr, proc, taskVars >>

\* Variant: a goroutine is spawned only when no other one is running.
Spawn_OneAtATime ==
    /\ proc = "running" /\ pc = "loop" /\ i < N
    /\ \A t \in Tasks : tpc[t] \in {"idle", "done"}
    /\ tpc' = [tpc EXCEPT ![i + 1] = "start"]
    /\ i' = i + 1
    /\ UNCHANGED << gea, feed, pc, wg, feedItems, heap, result, rerr, err, proc,
                    tid, tart, trec, thdr, tnew, tlog >>

\* Lines 63-64, 109: go func(i).
Spawn ==
    /\ proc = "running" /\ pc = "loop" /\ i < N
    /\ tpc' = [tpc EXCEPT ![i + 1] = "start"]
    /\ i' = i + 1
    /\ UNCHANGED << gea, feed, pc, wg, feedItems, heap, result, rerr, err, proc,
                    tid, tart, trec, thdr, tnew, tlog >>

\* Line 63: the loop ends.
LoopExit ==
    /\ proc = "running" /\ pc = "loop" /\ i >= N
    /\ pc' = "wait"
    /\ UNCHANGED << gea, feed, i, wg, feedItems, heap, result, rerr, err, proc, taskVars >>

\* Variant: the wait gives up although goroutines are still running.
WaitReturn_TimesOut ==
    /\ proc = "running" /\ pc = "wait"
    /\ pc' = "returned"
    /\ result' = feedItems
    /\ rerr' = "nil"
    /\ UNCHANGED << gea, feed, i, wg, feedItems, heap, err, proc, taskVars >>

\* Lines 112-114: wg.Wait() returns once the counter is zero; return.
WaitReturn ==
    /\ proc = "running" /\ pc = "wait" /\ wg = 0
    /\ pc' = "returned"
    /\ result' = feedItems
    /\ rerr' = "nil"
    /\ UNCHANGED << gea, feed, i, wg, feedItems, heap, err, proc, taskVars >>

\* ------------------------------------------------------- the goroutines
\* Variant: the description is copied as it is.
NewRecord_RawBody(t, id, ext, image) ==
    LET item == feed.Items[t] IN
    RrssFeed(t, id, Url, feed.Title, image, item.Description,
             item.Link, Sanitize(ext), item.Published)

\* Variant: the extracted text is copied as it is.
NewRecord_RawExtended(t, id, ext, image) ==
    LET item == feed.Items[t] IN
    RrssFeed(t, id, Url, feed.Title, image, Sanitize(item.Description),
             item.Link, ext, item.Published)

\* Variant: the item's title is copied into the record.
NewRecord_WithTitle(t, id, ext, image) ==
    LET item == feed.Items[t] IN
    [ RrssFeed(t, id, Url, feed.Title, image, Sanitize(item.Description),
               item.Link, Sanitize(ext), item.Published)
      EXCEPT !.ItemTitle = item.Title ]

\* Variant: the article is fetched whatever the link is.
HasLink_Always(item) == TRUE

\* Line 77: the test of the link.
HasLink(item) == Len(item.Link) > 0

\* Lines 91-106: sanitize both texts and build the record.
NewRecord(t, id, ext, image) ==
    LET item == feed.Items[t] IN
    RrssFeed(t, id, Url, feed.Title, image, Sanitize(item.Description),
             item.Link, Sanitize(ext), item.Published)

\* Lines 66-78, 87-106: generateId, then the test of the link.  An item
\* without a link goes straight to building its record.
TaskStart(t) ==
    /\ proc = "running" /\ tpc[t] = "start"
    /\ \E u \in UuidOutcomes :
         LET item == feed.Items[t]
             r    == generateId(item, u)
         IN  IF r.err
             THEN \* line 70: log.Fatal ends the process
                  /\ proc' = "exited"
                  /\ UNCHANGED << taskVars >>
             ELSE /\ proc' = proc
                  /\ tid' = [tid EXCEPT ![t] = r.id]
                  /\ IF HasLink(item)
                     THEN /\ tpc' = [tpc EXCEPT ![t] = "fetching"]
                          /\ tlog' = [tlog EXCEPT ![t].fetches = @ + 1]
                          /\ trec' = trec
                     ELSE /\ tpc' = [tpc EXCEPT ![t] = "append"]
                          /\ trec' = [trec EXCEPT ![t] = NewRecord(t, r.id, Empty, Empty)]
                          /\ tlog' = tlog
                  /\ UNCHANGED << tart, thdr, tnew >>
    /\ UNCHANGED << gea, feed, pc, i, wg, feedItems, heap, result, rerr, err >>

\* Variant: no pause; the record is built as soon as the fetch returns.
ExtractReturns_NoPause(t) ==
    /\ proc = "running" /\ tpc[t] = "fetching"
    /\ \E o \in ExtractOutcomes :
         /\ tlog' = [tlog EXCEPT ![t].failed = o.err]
         /\ IF o.article.nil
            THEN /\ tpc' = [tpc EXCEPT ![t] = "panicking"]
                 /\ tart' = tart
                 /\ trec' = trec
            ELSE /\ tpc' = [tpc EXCEPT ![t] = "append"]
                 /\ tart' = [tart EXCEPT ![t] = o.article]
                 /\ trec' = [trec EXCEPT ![t] =
                       RrssFeed(t, tid[t], Url, feed.Title, o.article.TopImage,
                                Sanitize(feed.Items[t].Description),
                                feed.Items[t].Link,
                                Sanitize(o.article.CleanedText),
                                feed.Items[t].Published)]
    /\ UNCHANGED << gea, feed, pc, i, wg, feedItems, heap, result, rerr, err, proc,
                    tid, thdr, tnew >>

\* Lines 79-84: extractArticle returns.  The error is only logged, and the
\* article is dereferenced in either case: a nil article panics.
ExtractReturns(t) ==
    /\ proc = "running" /\ tpc[t] = "fetching"
    /\ \E o \in ExtractOutcomes :
         /\ tlog' = [tlog EXCEPT ![t].failed = o.err]
         /\ IF o.article.nil
            THEN /\ tpc' = [tpc EXCEPT ![t] = "panicking"]
                 /\ tart' = tart
            ELSE /\ tpc' = [tpc EXCEPT ![t] = "pausing"]
                 /\ tart' = [tart EXCEPT ![t] = o.article]
    /\ UNCHANGED << gea, feed, pc, i, wg, feedItems, heap, result, rerr, err, proc,
                    tid, trec, thdr, tnew >>

\* Lines 86, 91-106: the pause ends; sanitize and build the record.
PauseEnds(t) ==
    /\ proc = "running" /\ tpc[t] = "pausing"
    /\ tpc' = [tpc EXCEPT ![t] = "append"]
    /\ tlog' = [tlog EXCEPT ![t].pauses = @ + 1]
    /\ trec' = [trec EXCEPT ![t] =
                  NewRecord(t, tid[t], tart[t].CleanedText, tart[t].TopImage)]
    /\ UNCHANGED << gea, feed, pc, i, wg, feedItems, heap, result, rerr, err, proc,
                    tid, tart, thdr, tnew >>

\* Line 96, first step of append: load the header of feedItems.
AppendLoad(t) ==
    /\ proc = "running" /\ tpc[t] = "append"
    /\ thdr' = [thdr EXCEPT ![t] = feedItems]
    /\ tpc' = [tpc EXCEPT ![t] = "write"]
    /\ UNCHANGED << gea, feed, pc, i, wg, feedItems, heap, result, rerr, err, proc,
                    tid, tart, trec, tnew, tlog >>

\* Variant: the element is put in front of the elements loaded.
AppendWrite_Front(t) ==
    /\ proc = "running" /\ tpc[t] = "write"
    /\ LET h == thdr[t]
           c == IF h.len < h.cap THEN h.cap ELSE GrowCap(h.cap)
           a == [k \in 1..c |->
                   IF k = 1 THEN trec[t]
                   ELSE IF k <= h.len + 1 THEN heap[h.arr][k - 1]
                   ELSE ZeroRrssFeed]
       IN  /\ heap' = [heap EXCEPT ![t] = a]
           /\ tnew' = [tnew EXCEPT ![t] = Slice(t, h.len + 1, c)]
    /\ tpc' = [tpc EXCEPT ![t] = "store"]
    /\ thdr' = [thdr EXCEPT ![t] = NilSlice]
    /\ UNCHANGED << gea, feed, pc, i, wg, feedItems, result, rerr, err, proc,
                    tid, tart, trec, tlog >>

\* Line 96, second step: write the element, in place when the capacity
\* allows, else into a new array that receives a copy of the old elements.
AppendWrite(t) ==
    /\ proc = "running" /\ tpc[t] = "write"
    /\ LET h == thdr[t] IN
       IF h.len < h.cap
       THEN /\ heap' = [heap EXCEPT ![h.arr][h.len + 1] = trec[t]]
            /\ tnew' = [tnew EXCEPT ![t] = Slice(h.arr, h.len + 1, h.cap)]
       ELSE LET c == GrowCap(h.cap)
                a == [k \in 1..c |->
                        IF k <= h.len THEN heap[h.arr][k]
                        ELSE IF k = h.len + 1 THEN trec[t]
                        ELSE ZeroRrssFeed]
            IN  /\ heap' = [heap EXCEPT ![t] = a]
                /\ tnew' = [tnew EXCEPT ![t] = Slice(t, h.len + 1, c)]
    /\ tpc' = [tpc EXCEPT ![t] = "store"]
    /\ thdr' = [thdr EXCEPT ![t] = NilSlice]
    /\ UNCHANGED << gea, feed, pc, i, wg, feedItems, result, rerr, err, proc,
                    tid, tart, trec, tlog >>

\* Line 96, third step: store the new header into feedItems.
AppendStore(t) ==
    /\ proc = "running" /\ tpc[t] = "store"
    /\ feedItems' = tnew[t]
    /\ tpc' = [tpc EXCEPT ![t] = "exit"]
    /\ tlog' = [tlog EXCEPT ![t].appends = @ + 1]
    /\ tnew' = [tnew EXCEPT ![t] = NilSlice]
    /\ UNCHANGED << gea, feed, pc, i, wg, heap, result, rerr, err, proc,
                    tid, tart, trec, thdr >>

\* Lines 65, 109: the goroutine returns and the deferred wg.Done() runs.
TaskDone(t) ==
    /\ proc = "running" /\ tpc[t] = "exit"
    /\ wg' = wg - 1
    /\ tpc' = [tpc EXCEPT ![t] = "done"]
    /\ tlog' = [tlog EXCEPT ![t].done = TRUE]
    /\ UNCHANGED << gea, feed, pc, i, feedItems, heap, result, rerr, err, proc,
                    tid, tart, trec, thdr, tnew >>

\* Lines 65, 83: a panicking goroutine runs its deferred wg.Done() first.
PanicUnwind(t) ==
    /\ proc = "running" /\ tpc[t] = "panicking"
    /\ wg' = wg - 1
    /\ tpc' = [tpc EXCEPT ![t] = "dead"]
    /\ UNCHANGED << gea, feed, pc, i, feedItems, heap, result, rerr, err, proc,
                    tid, tart, trec, thdr, tnew, tlog >>

\* Line 83: nothing recovers the panic; the runtime ends the process.
PanicExit(t) ==
    /\ proc = "running" /\ tpc[t] = "dead"
    /\ proc' = "panicked"
    /\ UNCHANGED << gea, feed, pc, i, wg, feedItems, heap, result, rerr, err, taskVars >>

Next ==
    \/ ParseURLFails
    \/ ParseURLOk
    \/ Spawn
    \/ LoopExit
    \/ WaitReturn
    \/ \E t \in Tasks : TaskStart(t)
    \/ \E t \in Tasks : ExtractReturns(t)
    \/ \E t \in Tasks : PauseEnds(t)
    \/ \E t \in Tasks : AppendLoad(t)
    \/ \E t \in Tasks : AppendWrite(t)
    \/ \E t \in Tasks : AppendStore(t)
    \/ \E t \in Tasks : TaskDone(t)
    \/ \E t \in Tasks : PanicUnwind(t)
    \/ \E t \in Tasks : PanicExit(t)

Spec == Init /\ [][Next]_vars

\* The scheduler runs every goroutine that can run, and every call that
\* was started returns.
Fairness ==
    /\ WF_vars(ParseURLFails \/ ParseURLOk)
    /\ WF_vars(Spawn) /\ WF_vars(LoopExit) /\ WF_vars(WaitReturn)
    /\ \A t \in Tasks :
          /\ WF_vars(TaskStart(t)) /\ WF_vars(ExtractReturns(t))
          /\ WF_vars(PauseEnds(t)) /\ WF_vars(AppendLoad(t))
          /\ WF_vars(AppendWrite(t)) /\ WF_vars(AppendStore(t))
          /\ WF_vars(TaskDone(t)) /\ WF_vars(PanicUnwind(t))
          /\ WF_vars(PanicExit(t))

FairSpec == Spec /\ Fairness

\* Parse on the feeds that exercise generateId.
InitId ==
    /\ feed \in IdFeeds
    /\ InitParse
    /\ gea = GeaIdle

IdSpec == InitId /\ [][Next]_vars

\* A feed with as many items as there are goroutines: the last item has a
\* link, the others have none.
RaceItem(k) ==
    IF k = MaxTasks
    THEN Item(Empty, << Txt, Txt, Txt >>, << Txt >>, << Txt >>, << Txt >>)
    ELSE Item(<< Txt >>, Empty, Empty, Empty, Empty)

RaceFeeds == { [Title |-> t, Items |-> [k \in 1..MaxTasks |-> RaceItem(k)]] :
                 t \in FeedTitles }

InitRace ==
    /\ feed \in RaceFeeds
    /\ InitParse
    /\ gea = GeaIdle

RaceSpec == InitRace /\ [][Next]_vars

\* --------------------------------------------------- GetExtendedArticle
\* The inner HTML of the article containers a page can hold.
ArticleHtmls == { Empty, << Txt >>, << Tag >>, << Txt, Scr, Txt >>,
                  << Scr, Scr, Scr, Scr >> }

\* What http.Get(link) can deliver: a transport error, or a response with
\* a status code and a body that goquery parses, or fails to read, into a
\* document with some article containers.
Responses ==
    { [NoResponse EXCEPT !.transport = TRUE] }
    \cup [transport : {FALSE}, status : {199, 200, 299, 300},
          parses : BOOLEAN, articles : SeqsUpTo(ArticleHtmls, MaxArticles)]

parseVars == << feed, pc, i, wg, feedItems, heap, result, rerr, err, proc,
               tpc, tid, tart, trec, thdr, tnew, tlog >>

\* Lines 151-160: http.Get; its error is returned with the empty string.
GeaGet ==
    /\ gea.pc = "call"
    /\ gea' = IF gea.resp.transport
              THEN [gea EXCEPT !.pc = "returned", !.ret = Empty, !.err = "transport"]
              ELSE [gea EXCEPT !.pc = "status"]
    /\ UNCHANGED parseVars

\* Lines 162-169, 182: the test of the status code and the parse of the body.
GeaStatus ==
    /\ gea.pc = "status"
    /\ gea' = IF gea.resp.status >= 200 /\ gea.resp.status <= 299
              THEN IF gea.resp.parses
                   THEN [gea EXCEPT !.pc = "each", !.article = Empty, !.k = 0]
                   ELSE [gea EXCEPT !.pc = "returned", !.ret = Empty, !.err = "parse"]
              ELSE [gea EXCEPT !.pc = "returned", !.ret = Empty, !.err = "status"]
    /\ UNCHANGED parseVars

\* Variant: a later container of the same length replaces the earlier one.
GeaEach_LastWins ==
    /\ gea.pc = "each" /\ gea.k < Len(gea.resp.articles)
    /\ LET sanitized == Sanitize(gea.resp.articles[gea.k + 1]) IN
       gea' = [gea EXCEPT !.k = @ + 1,
                          !.article = IF Len(sanitized) >= Len(@)
                                      THEN sanitized ELSE @]
    /\ UNCHANGED parseVars

\* Lines 170-178: one container of the Each loop; a strictly longer
\* sanitized container replaces the article.
GeaEach ==
    /\ gea.pc = "each" /\ gea.k < Len(gea.resp.articles)
    /\ LET sanitized == Sanitize(gea.resp.articles[gea.k + 1]) IN
       gea' = [gea EXCEPT !.k = @ + 1,
                          !.article = IF Len(sanitized) > Len(@)
                                      THEN sanitized ELSE @]
    /\ UNCHANGED parseVars

\* Lines 179-180: the loop is over; the article is returned.
GeaReturn ==
    /\ gea.pc = "each" /\ gea.k >= Len(gea.resp.articles)
    /\ gea' = [gea EXCEPT !.pc = "returned", !.ret = gea.article, !.err = "nil"]
    /\ UNCHANGED parseVars

InitGea ==
    /\ feed = [Title |-> Empty, Items |-> << >>]
    /\ InitParse
    /\ gea \in { GeaCall(r) : r \in Responses }

NextGea == GeaGet \/ GeaStatus \/ GeaEach \/ GeaReturn

GeaSpec == InitGea /\ [][NextGea]_vars

\* The records Parse returned, in order.
Returned == Elems(heap, result)

\* ----------------------------------------------------------- properties
\* The goroutines whose record has been built.
Built == { t \in Tasks : tpc[t] \in {"append", "write", "store", "exit", "done"} }

\* Every record there is: in a goroutine's hands, in feedItems, returned.
Records ==
    { trec[t] : t \in Built }
    \cup { Elems(heap, feedItems)[k] : k \in 1..feedItems.len }
    \cup { Returned[k] : k \in 1..result.len }

Finished == pc = "returned" /\ err = "nil"

\* The returned records of item t.
ReturnedOf(t) == { k \in 1..result.len : Returned[k].idx = t }

\* C1: when the feed was retrieved with N items, Parse returns exactly N
\* records and a nil error, whatever the interleaving and the fetch results.
C1_ExactlyNRecords ==
    Finished => (rerr = "nil" /\ result.len = N)

\* C2: no two goroutines are at once between the load and the store of
\* their append to feedItems.
C2_NoOverlappingAppend ==
    \A s, t \in Tasks :
        (s # t /\ tpc[s] \in {"write", "store"}) => tpc[t] \notin {"write", "store"}

\* C3: a failed retrieval is returned with the nil list, with no goroutine
\* spawned and no article fetched; and Parse returns no other error.
C3_FeedFailure ==
    /\ err = "feedErr" =>
          /\ pc = "returned" /\ rerr = "feedErr" /\ result = NilSlice
          /\ \A t \in Tasks : tpc[t] = "idle" /\ tlog[t] = NoLog
    /\ (pc = "returned" /\ rerr # "nil") => err = "feedErr"

C3_Witness ==
    pc = "returned" /\ err = "feedErr" /\ N = MaxItems
    /\ \E t \in 1..N : HasLink(feed.Items[t])

\* C4: a failed article fetch leaves the goroutine running to completion,
\* and Parse returns a nil error and the item's record, with empty extended
\* body and empty image.
C4_FetchFailureNotFatal ==
    \A t \in Tasks :
        tlog[t].failed =>
            /\ proc = "running"
            /\ tpc[t] \notin {"panicking", "dead"}
            /\ Finished =>
                  /\ rerr = "nil"
                  /\ \E k \in ReturnedOf(t) :
                        /\ Returned[k].ItemExtendedBody = Empty
                        /\ Returned[k].ItemImage = Empty

\* C5: for an item with an empty link the goroutine never calls
\* extractArticle and never pauses, and the item's record has an empty
\* ItemExtendedBody and an empty ItemImage.
C5_SkipOnEmptyLink ==
    \A t \in 1..N :
        Len(feed.Items[t].Link) = 0 =>
            /\ tlog[t].fetches = 0 /\ tlog[t].pauses = 0
            /\ tpc[t] \notin {"fetching", "pausing", "panicking", "dead"}
            /\ \A r \in Records :
                  r.idx = t => r.ItemExtendedBody = Empty /\ r.ItemImage = Empty

C5_Witness ==
    /\ Finished
    /\ \E t \in 1..N :
          /\ Len(feed.Items[t].Link) = 0
          /\ tpc[t] = "done"
          /\ ReturnedOf(t) # {}
    /\ \E t \in 1..N : tlog[t].fetches = 1

\* C6: the record of an item with a GUID has that GUID as its Id.
C6_GuidIsId ==
    \A r \in Records :
        (r.idx >= 1 /\ Len(feed.Items[r.idx].GUID) > 0)
            => r.Id = feed.Items[r.idx].GUID

C6_Witness ==
    /\ Finished
    /\ \E j, k \in 1..result.len :
          /\ Returned[j].idx # Returned[k].idx
          /\ Len(feed.Items[Returned[j].idx].GUID) > 0
          /\ Len(feed.Items[Returned[k].idx].GUID) > 0
          /\ feed.Items[Returned[j].idx].Description
                # feed.Items[Returned[k].idx].Description

\* The records of items without a GUID.
HashedRecords == { r \in Records : r.idx >= 1 /\ Len(feed.Items[r.idx].GUID) = 0 }
DescriptionOf(r) == feed.Items[r.idx].Description

\* C7 as claimed: two items without GUID have equal Ids when their
\* descriptions are equal and different Ids when their descriptions differ.
C7_IdsDifferWithDescriptions ==
    \A r, q \in HashedRecords :
        (r.Id = q.Id) <=> (DescriptionOf(r) = DescriptionOf(q))

\* C7 as amended: the Id of an item without GUID is the hex-encoded digest
\* of its raw description; equal descriptions give equal Ids, and two Ids
\* differ exactly when the digests differ.
C7_IdIsContentHash ==
    /\ \A r \in HashedRecords :
          /\ r.Id = EncodeToString(Digest(7, DescriptionOf(r)))
          /\ Len(r.Id) = 2
          /\ \A k \in 1..Len(r.Id) : IsHexChar(r.Id[k])
    /\ \A r, q \in HashedRecords :
          /\ DescriptionOf(r) = DescriptionOf(q) => r.Id = q.Id
          /\ (r.Id # q.Id) <=> (Digest(7, DescriptionOf(r)) # Digest(7, DescriptionOf(q)))

C7_Witness ==
    /\ Finished
    /\ \E j, k \in 1..result.len :
          /\ Returned[j] \in HashedRecords /\ Returned[k] \in HashedRecords
          /\ Returned[j].idx # Returned[k].idx
          /\ DescriptionOf(Returned[j]) = DescriptionOf(Returned[k])
          /\ Returned[j].ItemUrl # Returned[k].ItemUrl
          /\ Returned[j].Id = Returned[k].Id

\* C8: Parse returns only after every goroutine has appended its record and
\* completed.
C8_ReturnAfterAllTasks ==
    Finished => \A t \in 1..N : tpc[t] = "done" /\ tlog[t].appends = 1

\* C9 as claimed: no string field of any record contains unsafe markup.
C9_AllFieldsSafe ==
    \A r \in Records :
        /\ ~HasUnsafe(r.Id) /\ ~HasUnsafe(r.FeedUrl) /\ ~HasUnsafe(r.FeedTitle)
        /\ ~HasUnsafe(r.ItemImage) /\ ~HasUnsafe(r.ItemTitle)
        /\ ~HasUnsafe(r.ItemBody) /\ ~HasUnsafe(r.ItemUrl)
        /\ ~HasUnsafe(r.ItemExtendedBody) /\ ~HasUnsafe(r.Published)

\* C9 as amended: ItemBody, ItemExtendedBody and ItemTitle contain no
\* unsafe markup; the other fields are copied and contain unsafe markup
\* exactly when their source does.
C9_SanitizedFieldsSafe ==
    \A r \in Records :
        /\ r.idx >= 1
        /\ ~HasUnsafe(r.ItemBody) /\ ~HasUnsafe(r.ItemExtendedBody)
        /\ ~HasUnsafe(r.ItemTitle)
        /\ HasUnsafe(r.Id) <=> HasUnsafe(feed.Items[r.idx].GUID)
        /\ HasUnsafe(r.FeedUrl) <=> HasUnsafe(Url)
        /\ HasUnsafe(r.FeedTitle) <=> HasUnsafe(feed.Title)
        /\ HasUnsafe(r.ItemUrl) <=> HasUnsafe(feed.Items[r.idx].Link)
        /\ HasUnsafe(r.Published) <=> HasUnsafe(feed.Items[r.idx].Published)
        /\ HasUnsafe(r.ItemImage) <=> HasUnsafe(tart[r.idx].TopImage)

C9_Witness ==
    /\ Finished
    /\ \E k \in 1..result.len :
          /\ HasUnsafe(feed.Items[Returned[k].idx].Description)
          /\ HasUnsafe(tart[Returned[k].idx].CleanedText)
          /\ HasUnsafe(Returned[k].Id)
          /\ HasUnsafe(Returned[k].ItemImage)

\* C10: ItemBody is the sanitizer's output for the description and
\* ItemExtendedBody the sanitizer's output for the extracted text, or for
\* the empty string when nothing was extracted.
C10_BodiesAreSanitized ==
    \A r \in Records :
        /\ r.idx >= 1
        /\ r.ItemBody = Sanitize(feed.Items[r.idx].Description)
        /\ r.ItemExtendedBody =
              IF tlog[r.idx].fetches = 0 \/ tlog[r.idx].failed
              THEN Empty
              ELSE Sanitize(tart[r.idx].CleanedText)
        /\ Len(feed.Items[r.idx].Description) = 0 => r.ItemBody = Empty
        /\ ~HasUnsafe(r.ItemBody) /\ ~HasUnsafe(r.ItemExtendedBody)

C10_Witness ==
    /\ Finished
    /\ \E j, k \in 1..result.len :
          /\ tlog[Returned[j].idx].failed
          /\ Returned[j].ItemBody # feed.Items[Returned[j].idx].Description
          /\ tlog[Returned[k].idx].fetches = 1 /\ ~tlog[Returned[k].idx].failed
          /\ Returned[k].ItemExtendedBody # tart[Returned[k].idx].CleanedText

\* C12: when the feed is retrieved and every started fetch returns, Parse
\* eventually returns under fair scheduling.
C12_ParseReturns == <>(pc = "returned")

\* The goroutine s can take the step it is at.
CanStep(s) ==
    /\ tpc[s] = "start" => ENABLED TaskStart(s)
    /\ tpc[s] = "fetching" => ENABLED ExtractReturns(s)
    /\ tpc[s] = "pausing" => ENABLED PauseEnds(s)
    /\ tpc[s] = "append" => ENABLED AppendLoad(s)
    /\ tpc[s] = "write" => ENABLED AppendWrite(s)
    /\ tpc[s] = "store" => ENABLED AppendStore(s)
    /\ tpc[s] = "exit" => ENABLED TaskDone(s)

\* C13: while the fetch of one item has not returned, Parse has not
\* returned and cannot return, and every other goroutine can go on with its
\* own steps up to its completion.
C13_HungFetch ==
    \A t \in Tasks :
        tpc[t] = "fetching" =>
            /\ pc # "returned"
            /\ ~ENABLED WaitReturn
            /\ wg >= 1
            /\ proc = "running" => \A s \in Tasks \ {t} : CanStep(s)

C13_Witness ==
    /\ proc = "running" /\ pc = "wait"
    /\ \E t, s \in 1..N :
          /\ tpc[t] = "fetching"
          /\ tpc[s] = "done" /\ tlog[s].fetches = 1 /\ tlog[s].appends = 1
          /\ \E k \in 1..feedItems.len : Elems(heap, feedItems)[k].idx = s

\* C14: every goroutine appends once; the collection never holds two
\* records of one item; and a record that is in the collection is not
\* changed by any later step.
C14_AppendOnceNeverModified ==
    [][ /\ \A t \in Tasks : tlog'[t].appends <= 1
        /\ \A j, k \in 1..feedItems'.len :
              j # k => Elems(heap', feedItems')[j].idx # Elems(heap', feedItems')[k].idx
        /\ \A k \in 1..feedItems.len :
              heap'[feedItems.arr][k] = heap[feedItems.arr][k] ]_vars

\* The goroutines that have left the pause (or skipped it).
PastPause == {"append", "write", "store", "exit", "done"}

C16_OneTaskPerItemNoCap ==
    /\ i <= N
    /\ \A t \in Tasks : (tpc[t] # "idle") <=> (t <= i)
    /\ (pc \in {"wait", "returned"} /\ err = "nil") => i = N
    /\ (proc = "running" /\ pc = "loop" /\ i < N) => ENABLED Spawn
    /\ \A t \in Tasks :
          (proc = "running" /\ tpc[t] = "start") => ENABLED TaskStart(t)

\* All goroutines of a feed of MaxItems items are inside their fetch.
C16_Witness ==
    /\ N = MaxItems /\ N >= 2
    /\ \A t \in 1..N : tpc[t] = "fetching" /\ HasLink(feed.Items[t])

\* C17: an append puts the record behind the elements the goroutine found
\* in the collection, whatever the index of its item; so the order of the
\* output is the order of the appends, not that of the input.
C17_OrderOfAppends ==
    [][ \A t \in Tasks :
          (tpc[t] = "write" /\ tpc'[t] = "store") =>
              /\ tnew'[t].len = thdr[t].len + 1
              /\ heap'[tnew'[t].arr][tnew'[t].len] = trec[t]
              /\ \A k \in 1..thdr[t].len :
                    heap'[tnew'[t].arr][k] = heap[thdr[t].arr][k] ]_vars

\* The record of the second item is returned before that of the first.
C17_Witness ==
    /\ Finished /\ result.len = 2
    /\ Returned[1].idx = 2 /\ Returned[2].idx = 1

\* The goroutines that are past generateId.
Identified == { t \in Tasks : tpc[t] \notin {"idle", "start"} }

\* C19: generateId never fails and never takes a UUID: every id is the
\* GUID or the two-digit hash, and items without GUID and without
\* description all have the id that is the hash of the empty string.
C19_IdNeverFails ==
    /\ proc # "exited"
    /\ \A t \in Identified :
          LET item == feed.Items[t] IN
          /\ Len(tid[t]) > 0
          /\ \A u \in UuidOutcomes : u.err \/ tid[t] # u.s
          /\ Len(item.GUID) = 0 =>
                Len(tid[t]) = 2 /\ \A k \in 1..2 : IsHexChar(tid[t][k])
          /\ (Len(item.GUID) = 0 /\ Len(item.Description) = 0) =>
                tid[t] = << HexChar(0), HexChar(7) >>
    /\ \A s, t \in Identified :
          ( /\ Len(feed.Items[s].GUID) = 0 /\ Len(feed.Items[s].Description) = 0
            /\ Len(feed.Items[t].GUID) = 0 /\ Len(feed.Items[t].Description) = 0 )
          => tid[s] = tid[t]

C19_Witness ==
    /\ Finished /\ result.len = 2
    /\ Returned[1].idx # Returned[2].idx
    /\ \A k \in 1..2 :
          /\ Len(feed.Items[Returned[k].idx].GUID) = 0
          /\ Len(feed.Items[Returned[k].idx].Description) = 0
    /\ Returned[1].Id = Returned[2].Id /\ Len(Returned[1].Id) > 0

\* C20: ItemTitle is empty in every record; FeedUrl, FeedTitle, ItemUrl and
\* Published are the url, the feed's title, the item's link and the item's
\* publication string.
C20_CopiedFields ==
    \A r \in Records :
        /\ r.idx >= 1
        /\ r.ItemTitle = Empty
        /\ r.FeedUrl = Url
        /\ r.FeedTitle = feed.Title
        /\ r.ItemUrl = feed.Items[r.idx].Link
        /\ r.Published = feed.Items[r.idx].Published

C20_Witness ==
    /\ Finished
    /\ \E k \in 1..result.len :
          /\ Len(feed.Items[Returned[k].idx].Title) > 0
          /\ Returned[k].ItemTitle = Empty
          /\ Len(Returned[k].ItemUrl) > 0 /\ Len(Returned[k].Published) > 0

\* The response of the call, and the sanitized containers of its page.
Resp == gea.resp
Is2xx == ~Resp.transport /\ Resp.status >= 200 /\ Resp.status <= 299
Cand(j) == Sanitize(Resp.articles[j])

\* The result is the first of the longest sanitized containers, or the
\* empty string when the page has no container.
IsFirstLongest(ret) ==
    IF Resp.articles = << >> THEN ret = Empty
    ELSE \E j \in 1..Len(Resp.articles) :
            /\ ret = Cand(j)
            /\ \A m \in 1..Len(Resp.articles) : Len(Cand(m)) <= Len(ret)
            /\ \A m \in 1..(j - 1) : Len(Cand(m)) < Len(ret)

\* C18 as claimed: every 2xx response yields a nil error and the first of
\* the longest sanitized containers; a transport failure or another status
\* yields the empty string and an error.
C18_Every2xxSucceeds ==
    gea.pc = "returned" =>
        /\ Is2xx => gea.err = "nil" /\ IsFirstLongest(gea.ret)
        /\ ~Is2xx => gea.ret = Empty /\ gea.err # "nil"

\* C18 as amended: a 2xx response whose body is parsed yields a nil error
\* and the first of the longest sanitized containers; a transport failure,
\* another status, or a 2xx body that cannot be parsed yields the empty
\* string and an error.
C18_FirstLongestArticle ==
    gea.pc = "returned" =>
        /\ (Is2xx /\ Resp.parses) => gea.err = "nil" /\ IsFirstLongest(gea.ret)
        /\ (Is2xx /\ ~Resp.parses) => gea.ret = Empty /\ gea.err = "parse"
        /\ Resp.transport => gea.ret = Empty /\ gea.err = "transport"
        /\ (~Resp.transport /\ ~Is2xx) => gea.ret = Empty /\ gea.err = "status"

\* Two containers of the same longest sanitized length: the first is
\* returned, and a container that is longer before sanitizing is not.
C18_Witness ==
    /\ gea.pc = "returned" /\ Is2xx /\ Resp.parses /\ gea.err = "nil"
    /\ \E j, m \in 1..Len(Resp.articles) :
          /\ j < m /\ Cand(j) # Cand(m) /\ Len(Cand(j)) = Len(Cand(m))
          /\ gea.ret = Cand(j)
    /\ \E m \in 1..Len(Resp.articles) : Len(Resp.articles[m]) > Len(gea.ret)
====
